---- MODULE Spec2Model ----
(***************************************************************************)
(* Model of src/contacts.rs (egrieco/gimme): extraction of probable email  *)
(* addresses and phone numbers from free text.                             *)
(*                                                                         *)
(* A string is a sequence of characters, a character is its code point     *)
(* (Rust orders Strings byte-wise; every character used here is ASCII, so  *)
(* byte order is code-point order).  A Vec<String> is a sequence of        *)
(* strings.                                                                *)
(***************************************************************************)
EXTENDS Integers, Sequences, FiniteSets, TLC

VARIABLES
    op,              \* the operation that was called
    pc,              \* the statement of that operation that runs next
    source,          \* the &str argument of the operation
    emails,          \* find_emails: let mut emails
    linkify_emails,  \* find_emails: let mut linkify_emails
    scanned,         \* what double_check_emails returned (never changed)
    phone_nums,      \* find_phone_nums: let mut phone_nums
    result,          \* the Vec<String> a find_ operation returned
    verdict,         \* the bool a predicate returned
    once,            \* per lazy static: the state of its initialisation guard
    built,           \* per lazy static: how many times Regex::new ran for it
    tpc,             \* per thread: its position in a predicate call
    tre,             \* per thread: the lazy static its current call uses
    tcalls           \* per thread: predicate calls it has completed

vars == <<op, pc, source, emails, linkify_emails, scanned, phone_nums, result,
          verdict, once, built, tpc, tre, tcalls>>

findVars == <<op, pc, source, emails, linkify_emails, scanned, phone_nums, result,
              verdict>>
lazyVars == <<once, built, tpc, tre, tcalls>>

----------------------------------------------------------------------------
(* Bounds of the model.                                                    *)

\* tokens in an input text of find_emails / find_phone_nums
MaxTokens == 3
\* characters in an input of strict_email
MaxEmailLen == 6
\* junk characters put before and after a phone-shaped input of valid_phone
MaxPad == 1
\* predicate calls one thread makes
MaxCalls == 2
\* threads that call the predicates concurrently
MaxThreads == 2

----------------------------------------------------------------------------
(* Characters.                                                             *)

Ch == [tab |-> 9, nl |-> 10, sp |-> 32, lpar |-> 40, rpar |-> 41,
       plus |-> 43, comma |-> 44, minus |-> 45, dot |-> 46,
       d0 |-> 48, d1 |-> 49, d2 |-> 50, d3 |-> 51, d4 |-> 52,
       d5 |-> 53, d6 |-> 54, d8 |-> 56, d9 |-> 57,
       at |-> 64, A |-> 65, B |-> 66, X |-> 88, us |-> 95,
       a |-> 97, b |-> 98, c |-> 99, h |-> 104, i |-> 105, x |-> 120]

\* char::is_whitespace and the regex class \s, on ASCII
WhiteSpace == {9, 10, 11, 12, 13, 32}
\* the regex class \d, on ASCII
Digit == 48..57
\* the regex class [2-9]
Digit2to9 == 50..57
\* the regex class [[:word:]] = [0-9A-Za-z_]
WordChar == (48..57) \cup (65..90) \cup (97..122) \cup {95}
UpperCase == 65..90

Range(s) == {s[k] : k \in 1..Len(s)}

----------------------------------------------------------------------------
(* String and Vec operations of the standard library.                      *)

\* char::to_lowercase on ASCII
LowerChar(ch) == IF ch \in UpperCase THEN ch + 32 ELSE ch

\* variant of to_lowercase: the string is left as it is
to_lowercase_kept(s) == s

\* str::to_lowercase
to_lowercase(s) == [k \in 1..Len(s) |-> LowerChar(s[k])]

\* Ord for String: a <= b, lexicographic by byte
RECURSIVE StrLE(_, _)
StrLE(s, t) ==
    IF s = <<>> THEN TRUE
    ELSE IF t = <<>> THEN FALSE
    ELSE IF Head(s) < Head(t) THEN TRUE
    ELSE IF Head(s) > Head(t) THEN FALSE
    ELSE StrLE(Tail(s), Tail(t))

RECURSIVE InsertSorted(_, _)
InsertSorted(e, v) ==
    IF v = <<>> THEN <<e>>
    ELSE IF StrLE(e, Head(v)) THEN <<e>> \o v
    ELSE <<Head(v)>> \o InsertSorted(e, Tail(v))

\* Vec::sort: the elements in ascending order (the sorted tail is bound as a
\* value, then the head is inserted)
RECURSIVE sort(_)
sort(v) ==
    IF v = <<>> THEN <<>>
    ELSE CHOOSE r \in {InsertSorted(Head(v), rest) : rest \in {sort(Tail(v))}} : TRUE

\* variant of dedup: nothing is removed
dedup_none(v) == v

\* Vec::dedup: removes consecutive repeated elements, keeping the first
RECURSIVE dedup(_)
dedup(v) ==
    IF Len(v) <= 1 THEN v
    ELSE IF v[1] = v[2] THEN dedup(Tail(v))
    ELSE <<v[1]>> \o dedup(Tail(v))

\* str::split_whitespace: the maximal runs of non-whitespace characters, in
\* order; cur is the run being read
RECURSIVE SplitFrom(_, _)
SplitFrom(s, cur) ==
    IF s = <<>> THEN (IF cur = <<>> THEN <<>> ELSE <<cur>>)
    ELSE IF Head(s) \in WhiteSpace
         THEN (IF cur = <<>> THEN <<>> ELSE <<cur>>) \o SplitFrom(Tail(s), <<>>)
         ELSE SplitFrom(Tail(s), Append(cur, Head(s)))

split_whitespace(s) == SplitFrom(s, <<>>)

----------------------------------------------------------------------------
(* Regular expressions.  A set of positions holds the places (1..Len+1) the *)
(* matcher may stand at; Regex::is_match searches from every start          *)
(* position.                                                               *)

\* one character of class C
ReOne(t, S, C) == {p + 1 : p \in {q \in S : q <= Len(t) /\ t[q] \in C}}

\* C+ : one or more characters of class C
RECURSIVE RePlus(_, _, _)
RePlus(t, S, C) ==
    LET n == ReOne(t, S, C)
    IN  IF n = {} THEN {} ELSE n \cup RePlus(t, n, C)

\* variant of the pattern of strict_email without the anchor $
EmailReUnanchored(t) ==
    LET s0 == 1..(Len(t) + 1)
        s1 == ReOne(t, s0, {Ch.at})
        s2 == RePlus(t, s1, WordChar)
        s3 == ReOne(t, s2, {Ch.dot})
        s4 == RePlus(t, s3, WordChar)
    IN  s4 # {}

\* the pattern of strict_email:  @ [[:word:]]+ \. [[:word:]]+ $
EmailReIsMatch(t) ==
    LET s0 == 1..(Len(t) + 1)
        s1 == ReOne(t, s0, {Ch.at})
        s2 == RePlus(t, s1, WordChar)
        s3 == ReOne(t, s2, {Ch.dot})
        s4 == RePlus(t, s3, WordChar)
    IN  (Len(t) + 1) \in s4

\* variant of the pattern of valid_phone whose exchange code is \d{3}
PhoneReAnyExchange(t) ==
    LET s0  == 1..(Len(t) + 1)
        cc  == s0 \cup ReOne(t, s0 \cup ReOne(t, s0, {Ch.plus}), {Ch.d1})
        p1  == cc \cup ReOne(t, cc, WhiteSpace \cup {Ch.dot})
        ar1 == ReOne(t, ReOne(t, ReOne(t, p1, Digit2to9), Digit), Digit)
        ar2 == ReOne(t, ReOne(t, ReOne(t, ReOne(t, ReOne(t, p1, {Ch.lpar}),
                     Digit2to9), Digit), Digit), {Ch.rpar})
        ar  == ar1 \cup ar2
        p2  == ar \cup ReOne(t, ar, WhiteSpace \cup {Ch.dot, Ch.minus})
        ex  == ReOne(t, ReOne(t, ReOne(t, p2, Digit), Digit), Digit)
        p3  == ex \cup ReOne(t, ex, WhiteSpace \cup {Ch.dot, Ch.minus})
        su  == ReOne(t, ReOne(t, ReOne(t, ReOne(t, p3, Digit), Digit), Digit), Digit)
    IN  su # {}

\* the pattern of valid_phone
PhoneReIsMatch(t) ==
    LET s0  == 1..(Len(t) + 1)
        \* (?:\+?1)?
        cc  == s0 \cup ReOne(t, s0 \cup ReOne(t, s0, {Ch.plus}), {Ch.d1})
        \* [\s\.]?
        p1  == cc \cup ReOne(t, cc, WhiteSpace \cup {Ch.dot})
        \* (([2-9]\d{2})|\(([2-9]\d{2})\))
        ar1 == ReOne(t, ReOne(t, ReOne(t, p1, Digit2to9), Digit), Digit)
        ar2 == ReOne(t, ReOne(t, ReOne(t, ReOne(t, ReOne(t, p1, {Ch.lpar}),
                     Digit2to9), Digit), Digit), {Ch.rpar})
        ar  == ar1 \cup ar2
        \* [\s\.\-]?
        p2  == ar \cup ReOne(t, ar, WhiteSpace \cup {Ch.dot, Ch.minus})
        \* ([2-9]\d{2})
        ex  == ReOne(t, ReOne(t, ReOne(t, p2, Digit2to9), Digit), Digit)
        \* [\s\.\-]?
        p3  == ex \cup ReOne(t, ex, WhiteSpace \cup {Ch.dot, Ch.minus})
        \* (\d{4})
        su  == ReOne(t, ReOne(t, ReOne(t, ReOne(t, p3, Digit), Digit), Digit), Digit)
    IN  su # {}

CountChar(t, ch) == Cardinality({k \in 1..Len(t) : t[k] = ch})

strict_email(text) ==
    IF CountChar(text, Ch.at) > 1 THEN FALSE
    ELSE EmailReIsMatch(text)

valid_phone(text) == PhoneReIsMatch(text)

\* variant of is_email: Some(word) for every word
is_email_always(word) == TRUE

\* StringExt::is_email / is_phone, as the filter of filter_map: the words for
\* which Some(word) is returned
is_email(word) == strict_email(word)
is_phone(word) == valid_phone(word)

\* Iterator::filter_map(|word| word.is_x()).collect()
FilterEmails(words) == SelectSeq(words, is_email)

FilterPhones(words) == SelectSeq(words, is_phone)

----------------------------------------------------------------------------
(* double_check_emails.  LinkFinder, of the linkify crate, restricted to    *)
(* LinkKind::Email, visits the '@' characters of the text from left to      *)
(* right; around an '@' it takes the local part to the left and the domain   *)
(* to the right, as far as the characters of each reach, so the punctuation  *)
(* that ends a sentence stays outside the link.  A link never overlaps the   *)
(* one before it.  Whether a domain without a '.' makes a link depends on    *)
(* the finder's email_domain_must_have_dot, which differs between versions   *)
(* of the crate: both outcomes are kept.                                    *)

\* characters of an atom of the local part: letters, digits and
\* ! # $ % & ' * + - / = ? ^ _ ` { | } ~
LocalAtomChar ==
    (48..57) \cup (65..90) \cup (97..122) \cup
    {33, 35, 36, 37, 38, 39, 42, 43, 45, 47, 61, 63, 94, 95, 96, 123, 124, 125, 126}

\* characters of a label of the domain: letters and digits
SubDomainChar == (48..57) \cup (65..90) \cup (97..122)

\* the first position of the local part that ends at position k, or 0: atoms
\* separated by single dots, read backwards; first is the start found so far
RECURSIVE FindStart(_, _, _, _, _)
FindStart(s, k, low, first, atom_boundary) ==
    IF k < low THEN first
    ELSE IF s[k] \in LocalAtomChar THEN FindStart(s, k - 1, low, k, FALSE)
    ELSE IF s[k] = Ch.dot
         THEN (IF atom_boundary THEN first ELSE FindStart(s, k - 1, low, first, TRUE))
    ELSE first

\* <<the last position of the domain that begins at position k, or 0; whether
\* a '.' lies inside it>>: labels separated by single dots, '-' inside a label
RECURSIVE FindEnd(_, _, _, _, _, _)
FindEnd(s, k, first_in_sub_domain, can_end_sub_domain, last, dotted) ==
    IF k > Len(s) THEN <<last, dotted>>
    ELSE IF first_in_sub_domain
         THEN (IF s[k] \in SubDomainChar
               THEN FindEnd(s, k + 1, FALSE, TRUE, k, dotted \/ last # 0)
               ELSE <<last, dotted>>)
    ELSE IF s[k] = Ch.dot
         THEN (IF can_end_sub_domain
               THEN FindEnd(s, k + 1, TRUE, can_end_sub_domain, last, dotted)
               ELSE <<last, dotted>>)
    ELSE IF s[k] = Ch.minus
         THEN FindEnd(s, k + 1, FALSE, FALSE, last, dotted)
    ELSE IF s[k] \in SubDomainChar
         THEN FindEnd(s, k + 1, FALSE, TRUE, k, dotted)
    ELSE <<last, dotted>>

\* <<first position, last position, whether the domain holds a '.'>> of the
\* email around the '@' at position p that does not reach below position low;
\* a position of 0 when there is no local part or no domain
EmailRange(s, p, low) ==
    <<FindStart(s, p - 1, low, 0, TRUE)>> \o FindEnd(s, p + 1, TRUE, FALSE, 0, FALSE)

\* the links from position p on, none of them reaching below position low
\* (the range r of a link is bound as a value)
RECURSIVE LinksFrom(_, _, _, _)
LinksFrom(s, p, low, must_have_dot) ==
    IF p > Len(s) THEN <<>>
    ELSE IF s[p] # Ch.at THEN LinksFrom(s, p + 1, low, must_have_dot)
    ELSE CHOOSE links \in
            {IF r[1] # 0 /\ r[2] # 0 /\ (r[3] \/ ~must_have_dot)
             THEN <<SubSeq(s, r[1], r[2])>>
                  \o LinksFrom(s, r[2] + 1, r[2] + 1, must_have_dot)
             ELSE LinksFrom(s, p + 1, low, must_have_dot) :
             r \in {EmailRange(s, p, low)}} : TRUE

\* the Vec<String> double_check_emails returns
double_check_emails(s, must_have_dot) == LinksFrom(s, 1, 1, must_have_dot)

----------------------------------------------------------------------------
(* Inputs.                                                                 *)

SeqsUpTo(S, n) == UNION {[1..k -> S] : k \in 0..n}

\* the tokens, with seps[1] after the first, seps[2] after the second, and so
\* on, cyclically
RECURSIVE Join(_, _)
Join(toks, seps) ==
    IF toks = <<>> THEN <<>>
    ELSE IF Len(toks) = 1 THEN toks[1]
    ELSE toks[1] \o Head(seps) \o Join(Tail(toks), Tail(seps) \o <<Head(seps)>>)

\* what stands between the tokens of an input text
Separators == {<< <<Ch.sp>> >>, << <<Ch.nl, Ch.tab>>, <<Ch.sp>> >>}

\* B@x.c  a@x.c  b@x.c  A@x.c,  A@b  @x.c  hi
EmailTokens ==
    {<<Ch.B, Ch.at, Ch.x, Ch.dot, Ch.c>>,
     <<Ch.a, Ch.at, Ch.x, Ch.dot, Ch.c>>,
     <<Ch.b, Ch.at, Ch.x, Ch.dot, Ch.c>>,
     <<Ch.A, Ch.at, Ch.x, Ch.dot, Ch.c, Ch.comma>>,
     <<Ch.A, Ch.at, Ch.b>>,
     <<Ch.at, Ch.x, Ch.dot, Ch.c>>,
     <<Ch.h, Ch.i>>}

EmailTexts ==
    {Join(toks, seps) : toks \in SeqsUpTo(EmailTokens, MaxTokens), seps \in Separators}

\* 5553920011  (800)555-1234  +18005551234  800.555.1234x  123  155-555-1234  hi
PhoneTokens ==
    {<<Ch.d5, Ch.d5, Ch.d5, Ch.d3, Ch.d9, Ch.d2, Ch.d0, Ch.d0, Ch.d1, Ch.d1>>,
     <<Ch.lpar, Ch.d8, Ch.d0, Ch.d0, Ch.rpar, Ch.d5, Ch.d5, Ch.d5, Ch.minus,
       Ch.d1, Ch.d2, Ch.d3, Ch.d4>>,
     <<Ch.plus, Ch.d1, Ch.d8, Ch.d0, Ch.d0, Ch.d5, Ch.d5, Ch.d5, Ch.d1, Ch.d2,
       Ch.d3, Ch.d4>>,
     <<Ch.d8, Ch.d0, Ch.d0, Ch.dot, Ch.d5, Ch.d5, Ch.d5, Ch.dot, Ch.d1, Ch.d2,
       Ch.d3, Ch.d4, Ch.x>>,
     <<Ch.d1, Ch.d2, Ch.d3>>,
     <<Ch.d1, Ch.d5, Ch.d5, Ch.minus, Ch.d5, Ch.d5, Ch.d5, Ch.minus, Ch.d1,
       Ch.d2, Ch.d3, Ch.d4>>,
     <<Ch.h, Ch.i>>}

\* a text may begin and end with whitespace
Margins == {<<>>, <<Ch.sp>>}

PhoneTexts ==
    {m \o Join(toks, seps) \o m :
        toks \in SeqsUpTo(PhoneTokens, MaxTokens), seps \in Separators, m \in Margins}

----------------------------------------------------------------------------
(* find_emails, statement by statement.                                    *)

Collect ==
    /\ op = "find_emails" /\ pc = "collect"
    /\ \E words \in {split_whitespace(source)} : emails' = FilterEmails(words)
    /\ pc' = "scan"
    /\ UNCHANGED <<op, source, linkify_emails, scanned, phone_nums, result, verdict>>
    /\ UNCHANGED lazyVars

Scan ==
    /\ op = "find_emails" /\ pc = "scan"
    /\ \E must_have_dot \in BOOLEAN :
       \E links \in {double_check_emails(source, must_have_dot)} :
          /\ linkify_emails' = links
          /\ scanned' = links
    /\ pc' = "merge"
    /\ UNCHANGED <<op, source, emails, phone_nums, result, verdict>>
    /\ UNCHANGED lazyVars

\* variant of Merge: the links are sorted and deduplicated but never appended
MergeWithoutAppend ==
    /\ op = "find_emails" /\ pc = "merge"
    /\ linkify_emails' = dedup(sort(linkify_emails))
    /\ pc' = "sort"
    /\ UNCHANGED <<op, source, emails, scanned, phone_nums, result, verdict>>
    /\ UNCHANGED lazyVars

\* linkify_emails.sort(); linkify_emails.dedup(); emails.append(&mut linkify_emails)
Merge ==
    /\ op = "find_emails" /\ pc = "merge"
    /\ emails' = emails \o dedup(sort(linkify_emails))
    /\ linkify_emails' = <<>>
    /\ pc' = "sort"
    /\ UNCHANGED <<op, source, scanned, phone_nums, result, verdict>>
    /\ UNCHANGED lazyVars

\* emails.sort()
SortEmails ==
    /\ op = "find_emails" /\ pc = "sort"
    /\ emails' = sort(emails)
    /\ pc' = "lowercase"
    /\ UNCHANGED <<op, source, linkify_emails, scanned, phone_nums, result, verdict>>
    /\ UNCHANGED lazyVars

\* for email in &mut emails { *email = email.to_lowercase(); }
LowercaseEmails ==
    /\ op = "find_emails" /\ pc = "lowercase"
    /\ emails' = [k \in 1..Len(emails) |-> to_lowercase(emails[k])]
    /\ pc' = "dedup"
    /\ UNCHANGED <<op, source, linkify_emails, scanned, phone_nums, result, verdict>>
    /\ UNCHANGED lazyVars

\* emails.dedup(); emails
DedupEmails ==
    /\ op = "find_emails" /\ pc = "dedup"
    /\ emails' = dedup(emails)
    /\ result' = dedup(emails)
    /\ pc' = "done"
    /\ UNCHANGED <<op, source, linkify_emails, scanned, phone_nums, verdict>>
    /\ UNCHANGED lazyVars

----------------------------------------------------------------------------
(* find_phone_nums, statement by statement.                                *)

CollectPhones ==
    /\ op = "find_phone_nums" /\ pc = "collect"
    /\ \E words \in {split_whitespace(source)} : phone_nums' = FilterPhones(words)
    /\ pc' = "sort"
    /\ UNCHANGED <<op, source, emails, linkify_emails, scanned, result, verdict>>
    /\ UNCHANGED lazyVars

SortPhones ==
    /\ op = "find_phone_nums" /\ pc = "sort"
    /\ phone_nums' = sort(phone_nums)
    /\ pc' = "dedup"
    /\ UNCHANGED <<op, source, emails, linkify_emails, scanned, result, verdict>>
    /\ UNCHANGED lazyVars

DedupPhones ==
    /\ op = "find_phone_nums" /\ pc = "dedup"
    /\ phone_nums' = dedup(phone_nums)
    /\ result' = dedup(phone_nums)
    /\ pc' = "done"
    /\ UNCHANGED <<op, source, emails, linkify_emails, scanned, verdict>>
    /\ UNCHANGED lazyVars

----------------------------------------------------------------------------
(* The lazy statics are untouched in the specifications of the extraction  *)
(* functions and of the predicates.                                        *)

Patterns == {"EMAIL_RE", "PHONE_RE"}
Threads == 1..MaxThreads

LazyIdle ==
    /\ once = [r \in Patterns |-> "incomplete"]
    /\ built = [r \in Patterns |-> 0]
    /\ tpc = [t \in Threads |-> "idle"]
    /\ tre = [t \in Threads |-> "EMAIL_RE"]
    /\ tcalls = [t \in Threads |-> 0]

FindIdle ==
    /\ emails = <<>>
    /\ linkify_emails = <<>>
    /\ scanned = <<>>
    /\ phone_nums = <<>>
    /\ result = <<>>
    /\ verdict = FALSE

Init ==
    /\ \/ op = "find_emails" /\ source \in EmailTexts
       \/ op = "find_phone_nums" /\ source \in PhoneTexts
    /\ pc = "collect"
    /\ FindIdle
    /\ LazyIdle

Next ==
    \/ Collect
    \/ Scan
    \/ Merge
    \/ SortEmails
    \/ LowercaseEmails
    \/ DedupEmails
    \/ CollectPhones
    \/ SortPhones
    \/ DedupPhones

Spec == Init /\ [][Next]_vars

----------------------------------------------------------------------------
(* The predicates called on their own: strict_email and valid_phone.       *)

\* a  _  @  .  -
EmailAlphabet == {Ch.a, Ch.us, Ch.at, Ch.dot, Ch.minus}

EmailInputs == SeqsUpTo(EmailAlphabet, MaxEmailLen)

\* the inputs of tests::valid_phone_number and tests::invalid_phone_number
PhoneTestInputs ==
    {<<Ch.d1, Ch.d8, Ch.d0, Ch.d0, Ch.d5, Ch.d5, Ch.d5, Ch.d1, Ch.d2, Ch.d3, Ch.d4>>,
     <<Ch.d5, Ch.d5, Ch.d5, Ch.d3, Ch.d9, Ch.d2, Ch.d0, Ch.d0, Ch.d1, Ch.d1>>,
     <<Ch.d1, Ch.sp, Ch.lpar, Ch.d8, Ch.d0, Ch.d0, Ch.rpar, Ch.sp, Ch.d2, Ch.d3,
       Ch.d3, Ch.minus, Ch.d2, Ch.d0, Ch.d1, Ch.d0>>,
     <<Ch.plus, Ch.d1, Ch.sp, Ch.d9, Ch.d1, Ch.d6, Ch.sp, Ch.d2, Ch.d2, Ch.d2,
       Ch.minus, Ch.d4, Ch.d4, Ch.d4, Ch.d4>>,
     <<Ch.plus, Ch.d8, Ch.d6, Ch.sp, Ch.d8, Ch.d0, Ch.d0, Ch.sp, Ch.d5, Ch.d5,
       Ch.d5, Ch.sp, Ch.d1, Ch.d2, Ch.d3, Ch.d4>>,
     <<Ch.d1, Ch.d2, Ch.d3>>,
     <<Ch.d1>>,
     <<Ch.lpar, Ch.d8, Ch.d0, Ch.d0, Ch.rpar>>,
     <<Ch.plus, Ch.d1>>}

\* the parts a phone-shaped input is put together from, right and wrong ones
PhoneCountry == {<<>>, <<Ch.d1>>, <<Ch.plus, Ch.d1>>}
PhoneSep1 == {<<>>, <<Ch.sp>>}
PhoneArea == {<<Ch.d8, Ch.d0, Ch.d0>>, <<Ch.lpar, Ch.d8, Ch.d0, Ch.d0, Ch.rpar>>,
              <<Ch.d1, Ch.d0, Ch.d0>>, <<Ch.lpar, Ch.d8, Ch.d0, Ch.d0>>}
PhoneSep2 == {<<>>, <<Ch.dot>>, <<Ch.minus, Ch.minus>>}
PhoneExchange == {<<Ch.d5, Ch.d5, Ch.d5>>, <<Ch.d1, Ch.d5, Ch.d5>>}
PhoneSep3 == {<<>>, <<Ch.minus>>}
PhoneSubscriber == {<<Ch.d1, Ch.d2, Ch.d3, Ch.d4>>, <<Ch.d1, Ch.d2, Ch.d3>>}
\* x  9
PhonePad == SeqsUpTo({Ch.x, Ch.d9}, MaxPad)

PhoneInputs ==
    PhoneTestInputs \cup
    {l \o cc \o s1 \o ar \o s2 \o ex \o s3 \o su \o r :
        l \in PhonePad, cc \in PhoneCountry, s1 \in PhoneSep1, ar \in PhoneArea,
        s2 \in PhoneSep2, ex \in PhoneExchange, s3 \in PhoneSep3,
        su \in PhoneSubscriber, r \in PhonePad}

CallStrictEmail ==
    /\ op = "strict_email" /\ pc = "call"
    /\ verdict' = strict_email(source)
    /\ pc' = "done"
    /\ UNCHANGED <<op, source, emails, linkify_emails, scanned, phone_nums, result>>
    /\ UNCHANGED lazyVars

CallValidPhone ==
    /\ op = "valid_phone" /\ pc = "call"
    /\ verdict' = valid_phone(source)
    /\ pc' = "done"
    /\ UNCHANGED <<op, source, emails, linkify_emails, scanned, phone_nums, result>>
    /\ UNCHANGED lazyVars

InitPred ==
    /\ \/ op = "strict_email" /\ source \in EmailInputs
       \/ op = "valid_phone" /\ source \in PhoneInputs
    /\ pc = "call"
    /\ FindIdle
    /\ LazyIdle

NextPred ==
    \/ CallStrictEmail
    \/ CallValidPhone

SpecPred == InitPred /\ [][NextPred]_vars

----------------------------------------------------------------------------
(* The lazy statics RE of strict_email and of valid_phone, with concurrent *)
(* callers.  lazy_static! guards the initialiser by a std::sync::Once: the *)
(* first thread to dereference the static runs Regex::new(..).unwrap(),    *)
(* every other thread that dereferences it meanwhile blocks until that     *)
(* has finished.                                                           *)

\* a thread calls valid_phone, or strict_email on a text with at most one '@'
CallPredicate(t, re) ==
    /\ tpc[t] = "idle"
    /\ tcalls[t] < MaxCalls
    /\ tre' = [tre EXCEPT ![t] = re]
    /\ tpc' = [tpc EXCEPT ![t] = "deref"]
    /\ UNCHANGED <<once, built, tcalls>>
    /\ UNCHANGED findVars

\* a thread calls strict_email on a text with two or more '@': the early
\* return, which never reaches RE
CallEarlyReturn(t) ==
    /\ tpc[t] = "idle"
    /\ tcalls[t] < MaxCalls
    /\ tcalls' = [tcalls EXCEPT ![t] = @ + 1]
    /\ UNCHANGED <<once, built, tpc, tre>>
    /\ UNCHANGED findVars

\* variant of Deref without the guard: every thread that finds the static not
\* yet complete runs the initialiser
DerefUnguarded(t) ==
    /\ tpc[t] = "deref"
    /\ \/ /\ once[tre[t]] = "complete"
          /\ tpc' = [tpc EXCEPT ![t] = "match"]
          /\ UNCHANGED once
       \/ /\ once[tre[t]] # "complete"
          /\ once' = [once EXCEPT ![tre[t]] = "running"]
          /\ tpc' = [tpc EXCEPT ![t] = "init"]
    /\ UNCHANGED <<built, tre, tcalls>>
    /\ UNCHANGED findVars

\* the dereference of RE in RE.is_match(text)
Deref(t) ==
    /\ tpc[t] = "deref"
    /\ \/ /\ once[tre[t]] = "complete"
          /\ tpc' = [tpc EXCEPT ![t] = "match"]
          /\ UNCHANGED once
       \/ /\ once[tre[t]] = "incomplete"
          /\ once' = [once EXCEPT ![tre[t]] = "running"]
          /\ tpc' = [tpc EXCEPT ![t] = "init"]
    /\ UNCHANGED <<built, tre, tcalls>>
    /\ UNCHANGED findVars

\* Regex::new(..).unwrap(), run by the thread that won the guard
Construct(t) ==
    /\ tpc[t] = "init"
    /\ built' = [built EXCEPT ![tre[t]] = @ + 1]
    /\ once' = [once EXCEPT ![tre[t]] = "complete"]
    /\ tpc' = [tpc EXCEPT ![t] = "match"]
    /\ UNCHANGED <<tre, tcalls>>
    /\ UNCHANGED findVars

\* RE.is_match(text) and the return
IsMatch(t) ==
    /\ tpc[t] = "match"
    /\ tpc' = [tpc EXCEPT ![t] = "idle"]
    /\ tcalls' = [tcalls EXCEPT ![t] = @ + 1]
    /\ UNCHANGED <<once, built, tre>>
    /\ UNCHANGED findVars

InitLazy ==
    /\ op = "none"
    /\ pc = "none"
    /\ source = <<>>
    /\ FindIdle
    /\ LazyIdle

NextLazy ==
    \E t \in Threads :
        \/ \E re \in Patterns : CallPredicate(t, re)
        \/ CallEarlyReturn(t)
        \/ Deref(t)
        \/ Construct(t)
        \/ IsMatch(t)

SpecLazy == InitLazy /\ [][NextLazy]_vars

----------------------------------------------------------------------------
(* What the properties are stated with.                                    *)

\* v is in ascending order by Ord for String
IsAscending(v) == \A k \in 1..(Len(v) - 1) : StrLE(v[k], v[k + 1])

\* v is in strictly ascending order
IsStrictlyAscending(v) ==
    \A k \in 1..(Len(v) - 1) : StrLE(v[k], v[k + 1]) /\ v[k] # v[k + 1]

IsLowerCase(s) == \A k \in 1..Len(s) : s[k] \notin UpperCase

HasUpperCase(s) == \E k \in 1..Len(s) : s[k] \in UpperCase

\* the whitespace-delimited tokens of s: the maximal whitespace-free
\* substrings, by their first and last positions
TokenStarts(s) ==
    {k \in 1..Len(s) : s[k] \notin WhiteSpace /\ (k = 1 \/ s[k - 1] \in WhiteSpace)}

TokenEnds(s) ==
    {k \in 1..Len(s) : s[k] \notin WhiteSpace /\ (k = Len(s) \/ s[k + 1] \in WhiteSpace)}

TokensOf(s) ==
    {SubSeq(s, se[1], se[2]) :
        se \in {x \in TokenStarts(s) \X TokenEnds(s) :
                   /\ x[1] <= x[2]
                   /\ \A k \in x[1]..x[2] : s[k] \notin WhiteSpace}}

StrictTokens(s) == {t \in TokensOf(s) : strict_email(t)}

PhoneLikeTokens(s) == {t \in TokensOf(s) : valid_phone(t)}

EmailsDone == op = "find_emails" /\ pc = "done"

PhonesDone == op = "find_phone_nums" /\ pc = "done"

\* t ends with '@', word characters, '.', word characters, and has one '@'
EndsWithDomain(t) ==
    \E k \in 1..Len(t) : \E j \in (k + 2)..(Len(t) - 1) :
        /\ t[k] = Ch.at
        /\ t[j] = Ch.dot
        /\ \A m \in (k + 1)..(j - 1) : t[m] \in WordChar
        /\ \A m \in (j + 1)..Len(t) : t[m] \in WordChar

\* the substring of t that begins at position k has the shape of a phone
\* number: country code '+' '1' (cl = 2) or none, separator (l1 = 1) or none,
\* area code in parentheses (pr = 1) or bare, separator (l2 = 1) or none,
\* exchange code, separator (l3 = 1) or none, four digits
PhoneShapeAt(t, k, cl, l1, pr, l2, l3) ==
    LET ar == (k - 1) + cl + l1 + pr
        ex == ar + 3 + pr + l2
        su == ex + 3 + l3
    IN  /\ su + 4 <= Len(t)
        /\ cl = 2 => (t[k] = Ch.plus /\ t[k + 1] = Ch.d1)
        /\ l1 = 1 => t[k + cl] \in WhiteSpace \cup {Ch.dot}
        /\ pr = 1 => (t[ar] = Ch.lpar /\ t[ar + 4] = Ch.rpar)
        /\ t[ar + 1] \in Digit2to9 /\ t[ar + 2] \in Digit /\ t[ar + 3] \in Digit
        /\ l2 = 1 => t[ex] \in WhiteSpace \cup {Ch.dot, Ch.minus}
        /\ t[ex + 1] \in Digit2to9 /\ t[ex + 2] \in Digit /\ t[ex + 3] \in Digit
        /\ l3 = 1 => t[su] \in WhiteSpace \cup {Ch.dot, Ch.minus}
        /\ \A m \in (su + 1)..(su + 4) : t[m] \in Digit

ContainsPhoneShape(t) ==
    \E k \in 1..Len(t) : \E cl \in {0, 2} : \E l1 \in {0, 1} : \E pr \in {0, 1} :
    \E l2 \in {0, 1} : \E l3 \in {0, 1} : PhoneShapeAt(t, k, cl, l1, pr, l2, l3)

----------------------------------------------------------------------------
(* The properties.                                                         *)

\* C1: the sequence find_emails returns holds no two elements that are equal
\* when compared case-insensitively.
C1_NoDuplicateEmails ==
    EmailsDone =>
        \A k \in 1..Len(result) : \A j \in 1..Len(result) :
            k # j => to_lowercase(result[k]) # to_lowercase(result[j])

\* C2: the sequence find_emails returns is in ascending lexicographic order.
C2_EmailsAscending == EmailsDone => IsAscending(result)

\* C3: every element find_emails returns is entirely lowercase.
C3_EmailsLowercase ==
    EmailsDone => \A k \in 1..Len(result) : IsLowerCase(result[k])

\* find_emails returned, and both an accepted token and a scanner match had
\* upper-case letters
C3_Witness ==
    /\ EmailsDone
    /\ \E t \in StrictTokens(source) : HasUpperCase(t)
    /\ \E k \in 1..Len(scanned) : HasUpperCase(scanned[k])
    /\ Len(result) >= 2

\* C4: find_phone_nums returns exactly the distinct whitespace tokens of the
\* text that satisfy the phone predicate, unchanged, each once, in strictly
\* ascending order; so every element is a whitespace-free token of the text.
C4_PhoneTokens ==
    PhonesDone =>
        /\ Range(result) = PhoneLikeTokens(source)
        /\ IsStrictlyAscending(result)
        /\ \A k \in 1..Len(result) : \A m \in 1..Len(result[k]) :
               result[k][m] \notin WhiteSpace

\* find_phone_nums returned two or more numbers, after a repeated one was
\* removed
C4_Witness ==
    /\ PhonesDone
    /\ Len(result) >= 2
    /\ Len(FilterPhones(split_whitespace(source))) > Len(result)

\* C5: strict_email is false for a token with two or more '@'; for any other
\* token it is true iff the token ends with '@', word characters, '.', word
\* characters.
C5_StrictEmail ==
    (op = "strict_email" /\ pc = "done") =>
        verdict = (IF CountChar(source, Ch.at) >= 2 THEN FALSE
                   ELSE EndsWithDomain(source))

\* strict_email accepted a token with an empty local part
C5_Witness ==
    /\ op = "strict_email" /\ pc = "done"
    /\ verdict = TRUE
    /\ source[1] = Ch.at

\* C6: valid_phone is true iff some substring of the text has the shape of a
\* phone number.
C6_ValidPhone ==
    (op = "valid_phone" /\ pc = "done") => verdict = ContainsPhoneShape(source)

\* valid_phone accepted a text with a character before and a character after
\* the number that belong to no part of it
C6_Witness ==
    /\ op = "valid_phone" /\ pc = "done"
    /\ verdict = TRUE
    /\ source[1] = Ch.x
    /\ source[Len(source)] = Ch.x

\* C7: find_emails and find_phone_nums always run to their return, and return
\* the empty sequence when no token satisfies the predicate (and, for
\* find_emails, the scanner reported nothing).
C7_TotalAndEmpty ==
    /\ (op \in {"find_emails", "find_phone_nums"} /\ pc # "done") => ENABLED Next
    /\ (EmailsDone /\ StrictTokens(source) = {} /\ scanned = <<>>) => result = <<>>
    /\ (PhonesDone /\ PhoneLikeTokens(source) = {}) => result = <<>>

\* find_emails returned the empty sequence for a text that has a token with
\* an '@' and another token, none accepted, the scanner having reported nothing
C7_Witness ==
    /\ EmailsDone
    /\ CountChar(source, Ch.at) >= 1
    /\ Cardinality(TokensOf(source)) >= 2
    /\ StrictTokens(source) = {}
    /\ scanned = <<>>
    /\ result = <<>>

\* C8: the set of strings find_emails returns is the set of the lowercase
\* forms of the accepted tokens and of the scanner's matches.
C8_UnionOfPasses ==
    EmailsDone =>
        Range(result) = {to_lowercase(t) : t \in StrictTokens(source)}
                        \cup {to_lowercase(scanned[k]) : k \in 1..Len(scanned)}

\* find_emails returned; one element came from an accepted token only and
\* one from the scanner only
C8_Witness ==
    /\ EmailsDone
    /\ \E t \in StrictTokens(source) :
           \A k \in 1..Len(scanned) : to_lowercase(scanned[k]) # to_lowercase(t)
    /\ \E k \in 1..Len(scanned) :
           \A t \in StrictTokens(source) : to_lowercase(scanned[k]) # to_lowercase(t)

\* C9: when find_emails removes the adjacent duplicates, the combined
\* collection, lowercased as it then is, is sorted ascending.
C9_SortedWhenDedupRuns ==
    (op = "find_emails" /\ pc = "dedup") =>
        /\ \A k \in 1..Len(emails) : IsLowerCase(emails[k])
        /\ IsAscending(emails)

\* C10: each pattern is constructed at most once, and a caller evaluates only
\* against a pattern that was constructed, exactly once, before.
C10_ConstructedOnce ==
    /\ \A re \in Patterns : built[re] <= 1
    /\ \A re \in Patterns : once[re] = "complete" <=> built[re] = 1
    /\ \A t \in Threads :
           tpc[t] = "match" => (once[tre[t]] = "complete" /\ built[tre[t]] = 1)

\* two threads, each in its first call, evaluate against the same pattern at
\* the same time, and it was constructed once
C10_Witness ==
    /\ \E t \in Threads : \E u \in Threads :
           /\ t # u
           /\ tpc[t] = "match" /\ tpc[u] = "match"
           /\ tre[t] = tre[u]
           /\ tcalls[t] = 0 /\ tcalls[u] = 0
           /\ built[tre[t]] = 1

====
